---- MODULE Spec2Model ----
(***************************************************************************)
(* orthographic_projection (projectors/src/lib.rs): a point cloud is       *)
(* rasterized into six orthographic views with per-axis depth buffers,     *)
(* then an in-place windowed filter removes depth outliers.                *)
(*                                                                         *)
(* Numbers.  An f64 value v is represented by the integer v * Scale, so    *)
(* the model's floats are the multiples of 1/Scale.  Sums, products by     *)
(* 0/1 and by +1/-1 of such values are exact in f64; the one division of   *)
(* the code (line 95) is compared after cross-multiplying by the positive  *)
(* divisor, which decides the comparison exactly as f64 does for these     *)
(* magnitudes (the two sides differ by at least 1/(Scale * n) or are       *)
(* equal).  A zero divisor gives NaN in the code, and every comparison     *)
(* with NaN is false.                                                      *)
(***************************************************************************)
EXTENDS Integers, Sequences, FiniteSets, Bags, TLC

\* Resolution of the model's floats: units per 1.0.
Scale == 2

\* Longest point list of the exhaustive small-grid inputs.
MaxPoints == 3

----------------------------------------------------------------------------
(* Program constants *)

channels == 3
images == 6
initial_colors == 255
FilterMargin == 20

\* lib.rs:38
plane == << <<1, 2>>, <<0, 2>>, <<0, 1>> >>

RECURSIVE Pow2(_)
\* lib.rs:26  1 << precision
Pow2(n) == IF n = 0 THEN 1 ELSE 2 * Pow2(n - 1)

\* lib.rs:26-30  max_bound, rows, columns
max_bound(precision) == Pow2(precision)

\* lib.rs:27  max_bound as f64, in model units
max_bound_f64(precision) == max_bound(precision) * Scale

\* lib.rs:12  val.floor() as u64 (the cast saturates: a negative value gives 0)
FloorU64(val) == IF val < 0 THEN 0 ELSE val \div Scale

\* lib.rs:7-16 applied to one row
vec_to_2d_with_floor(row) == [c \in 1..Len(row) |-> FloorU64(row[c])]

----------------------------------------------------------------------------
(* Buffers.  B is a record of the four arrays plus the panic flag of an    *)
(* out-of-range index.                                                     *)

\* lib.rs:34-37
InitBuffers(precision) ==
  LET side == max_bound(precision)
      R == 0..(side - 1)
  IN [ img       |-> [v \in 0..(images - 1) |-> [r \in R |-> [c \in R |->
                        [ch \in 1..channels |-> initial_colors]]]],
       ocp_map   |-> [v \in 0..(images - 1) |-> [r \in R |-> [c \in R |-> 0]]],
       min_depth |-> [a \in 0..(channels - 1) |-> [r \in R |-> [c \in R |-> 0]]],
       max_depth |-> [a \in 0..(channels - 1) |-> [r \in R |-> [c \in R |->
                        max_bound_f64(precision)]]],
       panicked  |-> FALSE ]

\* lib.rs:43-45 with > for >=
OutOfBoundsLoose(p, precision) ==
  \/ p[1] > max_bound_f64(precision)
  \/ p[2] > max_bound_f64(precision)
  \/ p[3] > max_bound_f64(precision)

\* lib.rs:43-45  the bounds check of one point
OutOfBounds(p, precision) ==
  \/ p[1] >= max_bound_f64(precision)
  \/ p[2] >= max_bound_f64(precision)
  \/ p[3] >= max_bound_f64(precision)

\* lib.rs:52 with < for <=, and with the test dropped
NearWinsStrict(d, best) == d < best

NearWinsAlways(d, best) == TRUE

\* lib.rs:52  the near-side depth test
NearWins(d, best) == d <= best

\* lib.rs:58 with the test dropped
FarWinsAlways(d, best) == TRUE

\* lib.rs:58  the far-side depth test
FarWins(d, best) == d >= best

\* lib.rs:52-57  low-side update of view 2j
LowUpdate(B, d, cf, j, k1, k2) ==
  IF NearWins(d, B.max_depth[j][k1][k2])
  THEN [B EXCEPT !.img[2 * j][k1][k2] = cf,
                 !.ocp_map[2 * j][k1][k2] = 1,
                 !.max_depth[j][k1][k2] = d]
  ELSE B

\* lib.rs:58-63  high-side update of view 2j+1
HighUpdate(B, d, cf, j, k1, k2) ==
  IF FarWins(d, B.min_depth[j][k1][k2])
  THEN [B EXCEPT !.img[2 * j + 1][k1][k2] = cf,
                 !.ocp_map[2 * j + 1][k1][k2] = 1,
                 !.min_depth[j][k1][k2] = d]
  ELSE B

\* lib.rs:49-64  one iteration of the axis loop; an index outside the arrays
\* panics (ndarray bounds check)
RasterAxis(B, p, c, j, precision) ==
  LET pf == vec_to_2d_with_floor(p)
      cf == vec_to_2d_with_floor(c)
      k1 == pf[plane[j + 1][1] + 1]
      k2 == pf[plane[j + 1][2] + 1]
      side == max_bound(precision)
  IN IF k1 >= side \/ k2 >= side THEN [B EXCEPT !.panicked = TRUE]
     ELSE HighUpdate(LowUpdate(B, p[j + 1], cf, j, k1, k2), p[j + 1], cf, j, k1, k2)

\* lib.rs:42-65  one iteration of the point loop; a panic ends it
RasterPoint(B, p, c, precision) ==
  IF OutOfBounds(p, precision) THEN B
  ELSE LET B0 == RasterAxis(B, p, c, 0, precision)
           B1 == RasterAxis(B0, p, c, 1, precision)
       IN IF B0.panicked THEN B0
          ELSE IF B1.panicked THEN B1
          ELSE RasterAxis(B1, p, c, 2, precision)

RECURSIVE RasterLoop(_, _, _, _, _)
\* lib.rs:42-65  the point loop from point n on; a panic ends it
RasterLoop(B, ps, cs, precision, n) ==
  IF n > Len(ps) \/ B.panicked THEN B
  ELSE RasterLoop(RasterPoint(B, ps[n], cs[n], precision), ps, cs, precision, n + 1)

\* lib.rs:34-65  the rasterizer's buffers for a whole input
Rasterize(ps, cs, precision) == RasterLoop(InitBuffers(precision), ps, cs, precision, 1)

----------------------------------------------------------------------------
(* Filter *)

\* lib.rs:93-95  .sum() over the cells S of the array m: the positive entries
\* as a bag of multiplicities, less the negative ones
SumCells(S, m) ==
  BagCardinality([x \in { y \in S : m[y[1]][y[2]] > 0 } |-> m[x[1]][x[2]]])
  - BagCardinality([x \in { y \in S : m[y[1]][y[2]] < 0 } |-> 0 - m[x[1]][x[2]]])

\* lib.rs:83-95  .sum() of the (2w+1) x (2w+1) window of m centred at (ci, cj)
WindowSum(m, ci, cj, w) ==
  SumCells(((ci - w)..(ci + w)) \X ((cj - w)..(cj + w)), m)

\* lib.rs:93  curr_depth_slice * ocp_map_slice, elementwise
MaskedDepth(depth, ocp) ==
  [r \in DOMAIN depth |-> [c \in DOMAIN depth[r] |-> depth[r][c] * ocp[r][c]]]

\* lib.rs:78-82  the depth buffer the current bias selects
curr_depth(B, b) == IF b = 1 THEN B.max_depth ELSE B.min_depth

\* lib.rs:94-97  depth * bias > (sum / n + bias * 20.0) * bias, with sum / n = NaN
\* for n = 0
IsOutlier(d, sum, n, b) ==
  /\ n > 0
  /\ d * b * n > (sum + b * FilterMargin * Scale * n) * b

\* lib.rs:96-97 without the occupancy test and with the comparison negated
\* (not (depth * bias <= average * bias)), which NaN satisfies
RemovesUnguarded(B, w, ci, cj, vk, b) ==
  LET depth == curr_depth(B, b)[vk \div 2]
      ocp == B.ocp_map[vk]
      n == WindowSum(ocp, ci, cj, w)
  IN \/ n = 0
     \/ IsOutlier(depth[ci][cj], WindowSum(MaskedDepth(depth, ocp), ci, cj, w), n, b)

\* lib.rs:77-98  the removal test of view vk at cell (ci, cj)
Removes(B, w, ci, cj, vk, b) ==
  LET depth_idx == vk \div 2
      depth == curr_depth(B, b)[depth_idx]
      ocp == B.ocp_map[vk]
  IN /\ ocp[ci][cj] = 1
     /\ IsOutlier(depth[ci][cj],
                  WindowSum(MaskedDepth(depth, ocp), ci, cj, w),
                  WindowSum(ocp, ci, cj, w), b)

\* lib.rs:100 left out
ClearPixelNone(im, vk, ci, cj) == im

\* lib.rs:100 with the slice taken over the whole row ci
ClearPixelRow(im, vk, ci, cj) ==
  [im EXCEPT ![vk][ci] = [c \in DOMAIN im[vk][ci] |->
                            [ch \in 1..channels |-> initial_colors]]]

\* lib.rs:100  img.slice_mut(s![k, i, j, ..]).fill(255)
ClearPixel(im, vk, ci, cj) ==
  [im EXCEPT ![vk][ci][cj] = [ch \in 1..channels |-> initial_colors]]

\* lib.rs:99-100 with the removed cell's depth entries reset as well
FilterViewResetDepth(B, w, ci, cj, vk, b) ==
  IF Removes(B, w, ci, cj, vk, b)
  THEN [B EXCEPT !.ocp_map[vk][ci][cj] = 0,
                 !.img = ClearPixel(B.img, vk, ci, cj),
                 !.max_depth[vk \div 2][ci][cj] = 0,
                 !.min_depth[vk \div 2][ci][cj] = 0]
  ELSE B

\* lib.rs:96-102  one iteration of the view loop
FilterView(B, w, ci, cj, vk, b) ==
  IF Removes(B, w, ci, cj, vk, b)
  THEN [B EXCEPT !.ocp_map[vk][ci][cj] = 0,
                 !.img = ClearPixel(B.img, vk, ci, cj)]
  ELSE B

\* lib.rs:103 without the toggle
NextBiasStuck(b) == b

\* lib.rs:103  bias *= -1.0
NextBias(b) == b * (-1)

\* lib.rs:73-74  the first interior index
FilterLo(w) == w

\* lib.rs:73-74  one past the last interior index
FilterHi(w, precision) == max_bound(precision) - w

\* lib.rs:83-100 with the loop indices swapped in every array index
VisitCellTransposed(li, lj) == <<lj, li>>

\* lib.rs:83-100  the cell addressed at loop indices (li, lj)
VisitCell(li, lj) == <<li, lj>>

RECURSIVE BiasAt(_)
\* lib.rs:75,103  the bias at view vk: 1.0 on entry to a cell, toggled after each view
BiasAt(vk) == IF vk = 0 THEN 1 ELSE NextBias(BiasAt(vk - 1))

RECURSIVE FilterViews(_, _, _, _, _)
\* lib.rs:75-104  the iterations vk..5 of the view loop at loop indices (li, lj)
FilterViews(B, w, li, lj, vk) ==
  IF vk >= images \/ B.panicked THEN B
  ELSE FilterViews(FilterView(B, w, VisitCell(li, lj)[1], VisitCell(li, lj)[2],
                              vk, BiasAt(vk)),
                   w, li, lj, vk + 1)

RECURSIVE FilterOrder(_, _, _, _)
\* lib.rs:73-106  the filter with the cell loops visiting order[n..Len(order)]
FilterOrder(B, w, order, n) ==
  IF n > Len(order) \/ B.panicked THEN B
  ELSE FilterOrder(FilterViews(B, w, order[n][1], order[n][2], 0), w, order, n + 1)

\* lib.rs:73-74  the loop indices in the order of the two nested loops
RowMajor(w, precision) ==
  LET lo == FilterLo(w)
      n == FilterHi(w, precision) - lo
  IN IF n <= 0 THEN << >>
     ELSE [t \in 1..(n * n) |-> <<lo + ((t - 1) \div n), lo + ((t - 1) % n)>>]

\* lib.rs:73-106  one whole filter pass
FilterPass(B, w, precision) ==
  FilterOrder(B, w, RowMajor(w, precision), 1)

\* lib.rs:26-110  the buffers the function returns
Returned(ps, cs, precision, w) ==
  IF w = 0 THEN Rasterize(ps, cs, precision)
  ELSE FilterPass(Rasterize(ps, cs, precision), w, precision)

----------------------------------------------------------------------------
(* State *)

VARIABLES points, colors, precision, filtering,
          img, ocp_map, min_depth, max_depth,
          pc, i, j, k, bias, freqs

vars == <<points, colors, precision, filtering, img, ocp_map, min_depth,
          max_depth, pc, i, j, k, bias, freqs>>

inputs == <<points, colors, precision, filtering>>

\* the four arrays as one record
Buffers == [img |-> img, ocp_map |-> ocp_map, min_depth |-> min_depth,
            max_depth |-> max_depth, panicked |-> FALSE]

----------------------------------------------------------------------------
(* Inputs *)

\* lib.rs:21  points of the 2 x 2 grid: in range (sharing a cell with equal or
\* different depths, split by the floor), equal to the bound, above it, negative
SmallPoints ==
  { <<0, 0, 0>>, <<1, 1, 0>>, <<1, 1, 1>>, <<2 * Scale - 1, Scale, Scale + 1>>,
    <<2 * Scale, 0, 0>>, <<0, 2 * Scale, 1>>, <<1, 1, 2 * Scale + 1>>,
    <<-1, 1, 0>> }

\* lib.rs:22  color lists: all colors different, and all colors equal
ColorLists ==
  { [n \in 1..(MaxPoints + 1) |-> <<n * Scale + 1, 20 * Scale, (30 + n) * Scale + 1>>],
    [n \in 1..(MaxPoints + 1) |-> <<-1, 255 * Scale, Scale>>] }

\* lib.rs:19-25  every list of 1..MaxPoints points on the 2 x 2 grid; the window
\* half-width 1 leaves no interior cell
SmallInputs ==
  UNION { { [points |-> ps, colors |-> SubSeq(cl, 1, n), precision |-> 1, filtering |-> w] :
              ps \in [1..n -> SmallPoints], cl \in ColorLists,
              w \in (IF n = 1 THEN {0, 1} ELSE {0}) } :
          n \in 1..MaxPoints }

\* lib.rs:50-51  the point that axis a maps to cell (u, v) with depth d
Place(a, u, v, d) ==
  IF a = 0 THEN <<d, u, v>> ELSE IF a = 1 THEN <<u, d, v>> ELSE <<u, v, d>>

\* lib.rs:19-25  a 32 x 32 grid seen along axis a: five points of depth ds in
\* cells that every window of half-width 15 contains, one in the interior cell
\* (15, 16) and one in the interior cell (16, 15) or in the border
WideInputs ==
  { [points |-> << Place(a, 10 * Scale, 10 * Scale, ds), Place(a, 10 * Scale, 11 * Scale + 1, ds),
                   Place(a, 11 * Scale, 10 * Scale, ds), Place(a, 11 * Scale, 11 * Scale, ds),
                   Place(a, 15 * Scale, 3 * Scale, ds),
                   Place(a, 15 * Scale, 16 * Scale + 1, da), Place(a, pb[1], pb[2], db) >>,
     colors |-> [n \in 1..7 |-> IF n = 6 THEN <<-1, 255 * Scale, Scale>>
                                ELSE <<10 * Scale + 1, 20 * Scale, 30 * Scale + 1>>],
     precision |-> 5, filtering |-> w] :
    a \in 0..2, ds \in {0, 31 * Scale + 1}, da \in {0, 25 * Scale, 31 * Scale},
    db \in {0, 25 * Scale, 31 * Scale},
    pb \in { <<16 * Scale, 15 * Scale>>, <<20 * Scale, 20 * Scale>> }, w \in {15, 16} }

\* lib.rs:19-25  one point on the 16 x 16 grid, a window wider than the grid,
\* and a 4 x 4 grid with a 2 x 2 interior
SingleInputs ==
  { [points |-> << <<2 * Scale, 3 * Scale, Scale>> >>,
     colors |-> << <<10 * Scale, 20 * Scale, 30 * Scale>> >>,
     precision |-> 4, filtering |-> 0],
    [points |-> << <<Scale, 0, 1>> >>,
     colors |-> << <<10 * Scale, 20 * Scale, 30 * Scale>> >>,
     precision |-> 1, filtering |-> 3],
    [points |-> << <<Scale, 2 * Scale + 1, Scale>>, <<Scale + 1, 2 * Scale, 3 * Scale>> >>,
     colors |-> << <<10 * Scale, 20 * Scale, 30 * Scale>>, <<0, 1, 2 * Scale>> >>,
     precision |-> 2, filtering |-> 1] }

Inputs == SmallInputs \cup WideInputs \cup SingleInputs

----------------------------------------------------------------------------
(* Operations *)

\* lib.rs:26-41  the state on entry to the point loop
InitFrom(ins) ==
  /\ \E in \in ins :
       /\ points = in.points
       /\ colors = in.colors
       /\ precision = in.precision
       /\ filtering = in.filtering
  /\ img = InitBuffers(precision).img
  /\ ocp_map = InitBuffers(precision).ocp_map
  /\ min_depth = InitBuffers(precision).min_depth
  /\ max_depth = InitBuffers(precision).max_depth
  /\ pc = "raster"
  /\ i = 0
  /\ j = 0
  /\ k = 0
  /\ bias = 0
  /\ freqs = [v \in 0..(images - 1) |-> 0]

\* lib.rs:19-25  every modelled input
Init == InitFrom(Inputs)

SetBuffers(B) ==
  /\ img' = B.img
  /\ ocp_map' = B.ocp_map
  /\ min_depth' = B.min_depth
  /\ max_depth' = B.max_depth

\* lib.rs:43-48  a point outside the grid is skipped
RasterSkip ==
  /\ pc = "raster"
  /\ i < Len(points)
  /\ OutOfBounds(points[i + 1], precision)
  /\ i' = i + 1
  /\ UNCHANGED <<inputs, img, ocp_map, min_depth, max_depth, pc, j, k, bias, freqs>>

\* lib.rs:42-65  one point is rasterized on its three axes
RasterStep ==
  /\ pc = "raster"
  /\ i < Len(points)
  /\ ~OutOfBounds(points[i + 1], precision)
  /\ LET B == RasterPoint(Buffers, points[i + 1], colors[i + 1], precision)
     IN /\ SetBuffers(B)
        /\ pc' = IF B.panicked THEN "panic" ELSE pc
  /\ i' = i + 1
  /\ UNCHANGED <<inputs, j, k, bias, freqs>>

\* lib.rs:66-69  filtering = 0: the rasterizer's buffers are returned
ReturnUnfiltered ==
  /\ pc = "raster"
  /\ i = Len(points)
  /\ filtering = 0
  /\ pc' = "done"
  /\ UNCHANGED <<inputs, img, ocp_map, min_depth, max_depth, i, j, k, bias, freqs>>

\* lib.rs:70-75  entry to the filter loops
FilterStart ==
  /\ pc = "raster"
  /\ i = Len(points)
  /\ filtering > 0
  /\ filtering <= max_bound(precision)
  /\ pc' = "filter"
  /\ i' = FilterLo(filtering)
  /\ j' = FilterLo(filtering)
  /\ k' = 0
  /\ bias' = 1
  /\ freqs' = [v \in 0..(images - 1) |-> 0]
  /\ UNCHANGED <<inputs, img, ocp_map, min_depth, max_depth>>

\* lib.rs:73  max_bound_u - w_u with w_u > max_bound_u: the subtraction panics,
\* or wraps and the first window slice panics
FilterOverflow ==
  /\ pc = "raster"
  /\ i = Len(points)
  /\ filtering > max_bound(precision)
  /\ pc' = "panic"
  /\ UNCHANGED <<inputs, img, ocp_map, min_depth, max_depth, i, j, k, bias, freqs>>

\* lib.rs:76-104  one iteration of the view loop at cell (i, j), then the loop
\* counters advance (lines 73-75)
FilterStep ==
  /\ pc = "filter"
  /\ i < FilterHi(filtering, precision)
  /\ SetBuffers(FilterView(Buffers, filtering, VisitCell(i, j)[1], VisitCell(i, j)[2], k, bias))
  /\ freqs' = IF Removes(Buffers, filtering, VisitCell(i, j)[1], VisitCell(i, j)[2], k, bias)
              THEN [freqs EXCEPT ![k] = freqs[k] + 1] ELSE freqs
  /\ IF k < images - 1
       THEN /\ k' = k + 1
            /\ bias' = NextBias(bias)
            /\ UNCHANGED <<i, j>>
       ELSE /\ k' = 0
            /\ bias' = 1
            /\ IF j + 1 < FilterHi(filtering, precision)
                 THEN j' = j + 1 /\ i' = i
                 ELSE j' = FilterLo(filtering) /\ i' = i + 1
  /\ UNCHANGED <<inputs, pc>>

\* lib.rs:107-110  the filtered buffers are returned
FilterReturn ==
  /\ pc = "filter"
  /\ i >= FilterHi(filtering, precision)
  /\ pc' = "done"
  /\ UNCHANGED <<inputs, img, ocp_map, min_depth, max_depth, i, j, k, bias, freqs>>

Next ==
  \/ RasterSkip
  \/ RasterStep
  \/ ReturnUnfiltered
  \/ FilterStart
  \/ FilterOverflow
  \/ FilterStep
  \/ FilterReturn

Spec == Init /\ [][Next]_vars

\* lib.rs:26-41  the state on entry to the point loop, small grids only
InitSmall == InitFrom(SmallInputs \cup SingleInputs)

SpecSmall == InitSmall /\ [][Next]_vars

----------------------------------------------------------------------------
(* Properties *)

Views == 0..(images - 1)
Axes == 0..(channels - 1)
Cells == 0..(max_bound(precision) - 1)
Background == [ch \in 1..channels |-> initial_colors]
Bound == max_bound(precision) * Scale

\* a cell in the border of width w
IsBorder(r, c, w) ==
  r < w \/ c < w \/ r >= max_bound(precision) - w \/ c >= max_bound(precision) - w

\* some raw coordinate of p is at or above 2^precision
Outside(p) == \E c \in 1..3 : p[c] >= Bound

\* the indices of the points with every coordinate below 2^precision
Kept(n) == { m \in 1..n : ~Outside(points[m]) }

RECURSIVE KeptSeq(_, _)
\* the list ss[1..n] without the entries of the points outside
KeptSeq(ss, n) ==
  IF n = 0 THEN << >>
  ELSE IF Outside(points[n]) THEN KeptSeq(ss, n - 1)
  ELSE Append(KeptSeq(ss, n - 1), ss[n])

\* C1: every cell with occupancy 0 is background in all three channels, in
\* every state: after each point of the rasterization loop, after each visit
\* of the filter loop and in the returned buffers.
C1_Background ==
  \A v \in Views : \A r \in Cells : \A c \in Cells :
    ocp_map[v][r][c] = 0 => img[v][r][c] = Background

\* the filter has removed a pixel that the rasterizer had colored
C1_Witness ==
  /\ pc = "done"
  /\ \E v \in Views : freqs[v] > 0
  /\ \E v \in Views : \E r \in Cells : \E c \in Cells :
       /\ freqs[v] > 0
       /\ ocp_map[v][r][c] = 0
       /\ max_depth[v \div 2][r][c] < Bound

\* C2: a point with a coordinate >= 2^precision (equality included, on any
\* axis) updates no cell of any buffer: after i points the four buffers are
\* those of the first i points with every such point deleted, and the
\* returned image and occupancy are those of the input with every such point
\* (and its color) deleted.  When no point remains the buffers are the freshly
\* allocated ones.
C2_BoundsRespect ==
  /\ pc \in {"raster", "panic"} =>
       LET R == IF Kept(i) = {} THEN InitBuffers(precision)
                ELSE Rasterize(KeptSeq(points, i), KeptSeq(colors, i), precision)
       IN /\ img = R.img
          /\ ocp_map = R.ocp_map
          /\ min_depth = R.min_depth
          /\ max_depth = R.max_depth
  /\ pc = "done" =>
       LET n == Len(points)
           R == IF Kept(n) = {} THEN InitBuffers(precision)
                ELSE Returned(KeptSeq(points, n), KeptSeq(colors, n), precision, filtering)
       IN img = R.img /\ ocp_map = R.ocp_map

\* a returned result where a point equal to the bound on one axis was skipped
\* between two points that were drawn
C2_Witness ==
  /\ pc = "done"
  /\ \E m \in 1..Len(points) : \E c \in 1..3 :
       /\ points[m][c] = Bound
       /\ \A d \in 1..3 : d # c => points[m][d] < Bound
       /\ \E l \in Kept(Len(points)) : l < m
       /\ \E l \in Kept(Len(points)) : l > m

\* the two in-plane coordinates of axis a, in index order
Others(a) == IF a = 0 THEN <<2, 3>> ELSE IF a = 1 THEN <<1, 3>> ELSE <<1, 2>>

\* the points that axis a maps to cell (r, c)
Hits(a, r, c) ==
  { n \in 1..Len(points) :
      /\ points[n][Others(a)[1]] \div Scale = r
      /\ points[n][Others(a)[2]] \div Scale = c }

\* the last point in input order among those of smallest depth in the cell
NearWinner(a, r, c) ==
  CHOOSE n \in Hits(a, r, c) : \A m \in Hits(a, r, c) :
    \/ points[n][a + 1] < points[m][a + 1]
    \/ points[n][a + 1] = points[m][a + 1] /\ m <= n

\* the last point in input order among those of largest depth in the cell
FarWinner(a, r, c) ==
  CHOOSE n \in Hits(a, r, c) : \A m \in Hits(a, r, c) :
    \/ points[n][a + 1] > points[m][a + 1]
    \/ points[n][a + 1] = points[m][a + 1] /\ m <= n

\* every coordinate of every point is >= 0 and < 2^precision
AllInRange == \A n \in 1..Len(points) : \A c \in 1..3 : 0 <= points[n][c] /\ points[n][c] < Bound

\* the image and occupancy of view v at (r, c) hold point n, or nothing
ShowsPoint(v, r, c, n) ==
  /\ ocp_map[v][r][c] = 1
  /\ img[v][r][c] = vec_to_2d_with_floor(colors[n])

ShowsNothing(v, r, c) == ocp_map[v][r][c] = 0 /\ img[v][r][c] = Background

\* C3: with filtering = 0 and every coordinate in [0, 2^precision), view 2a at
\* (r, c) is occupied iff some point maps there, and then holds the quantized
\* color of the last point among those of smallest a-coordinate; view 2a+1
\* likewise with the largest a-coordinate; every other cell is unoccupied and
\* background.  The point (2,3,1) at precision 4 occupies exactly (3,1) of
\* views 0 and 1, (2,1) of views 2 and 3 and (2,3) of views 4 and 5.
C3_RasterReference ==
  (pc = "done" /\ filtering = 0 /\ AllInRange) =>
    /\ \A a \in Axes : \A r \in Cells : \A c \in Cells :
         IF Hits(a, r, c) = {}
         THEN ShowsNothing(2 * a, r, c) /\ ShowsNothing(2 * a + 1, r, c)
         ELSE /\ ShowsPoint(2 * a, r, c, NearWinner(a, r, c))
              /\ ShowsPoint(2 * a + 1, r, c, FarWinner(a, r, c))
    /\ (precision = 4 /\ points = << <<2 * Scale, 3 * Scale, Scale>> >>) =>
         \A v \in Views : \A r \in Cells : \A c \in Cells :
           ocp_map[v][r][c] = 1 <=>
             <<v, r, c>> \in { <<0, 3, 1>>, <<1, 3, 1>>, <<2, 2, 1>>, <<3, 2, 1>>,
                               <<4, 2, 3>>, <<5, 2, 3>> }

\* three points in one cell of axis 2, the first two tied at the smallest
\* depth, so that the last of the tied points wins the near view
C3_Witness ==
  /\ pc = "done" /\ filtering = 0 /\ AllInRange
  /\ Len(points) = 3
  /\ colors[1] # colors[2]
  /\ \E r \in Cells : \E c \in Cells :
       /\ Hits(2, r, c) = {1, 2, 3}
       /\ points[1][3] = points[2][3]
       /\ points[3][3] > points[2][3]
       /\ NearWinner(2, r, c) = 2
       /\ FarWinner(2, r, c) = 3

\* C4: the near depth (max_depth) never increases from one step to the next
\* and stays <= 2^precision; the far depth (min_depth) never decreases and
\* stays >= 0.
C4_DepthMonotone ==
  [][ \A a \in Axes : \A r \in Cells : \A c \in Cells :
        /\ max_depth'[a][r][c] <= max_depth[a][r][c]
        /\ max_depth[a][r][c] <= Bound
        /\ min_depth'[a][r][c] >= min_depth[a][r][c]
        /\ min_depth[a][r][c] >= 0 ]_vars

\* a cell whose near depth was lowered twice and whose far depth was raised,
\* after a point of negative depth and more points to come
C4_Witness ==
  /\ pc = "raster"
  /\ i >= 2 /\ i < Len(points)
  /\ \E a \in Axes : \E r \in Cells : \E c \in Cells :
       /\ max_depth[a][r][c] < 0
       /\ min_depth[a][r][c] > 0

\* no two points that axis a maps to one cell have the same a-coordinate
NoTies ==
  \A a \in Axes : \A n \in 1..Len(points) : \A m \in 1..Len(points) :
    (n # m /\ points[n][Others(a)[1]] \div Scale = points[m][Others(a)[1]] \div Scale
           /\ points[n][Others(a)[2]] \div Scale = points[m][Others(a)[2]] \div Scale)
      => points[n][a + 1] # points[m][a + 1]

\* the permutations of 1..n
Perms(n) == { f \in [1..n -> 1..n] : \A x \in 1..n : \E y \in 1..n : f[y] = x }

\* C9: with filtering = 0, every coordinate in [0, 2^precision) and no two
\* points of one cell of an axis at equal depth along it, the returned image
\* and occupancy are the same for every permutation of the input.
C9_OrderIndependent ==
  (pc = "done" /\ filtering = 0 /\ AllInRange /\ NoTies) =>
    \A f \in Perms(Len(points)) :
      LET R == Rasterize([n \in 1..Len(points) |-> points[f[n]]],
                         [n \in 1..Len(points) |-> colors[f[n]]], precision)
      IN R.img = img /\ R.ocp_map = ocp_map

\* three points of different colors that share cells, at different depths
C9_Witness ==
  /\ pc = "done" /\ filtering = 0 /\ AllInRange /\ NoTies
  /\ Len(points) = 3
  /\ colors[1] # colors[2]
  /\ \E r \in Cells : \E c \in Cells : Cardinality(Hits(0, r, c)) >= 2
  /\ \E n \in 1..3 : \E r \in Cells : \E c \in Cells :
       ocp_map[0][r][c] = 1 /\ img[0][r][c] # vec_to_2d_with_floor(colors[3])

----------------------------------------------------------------------------
(* Filter properties *)

Interior == FilterLo(filtering)..(FilterHi(filtering, precision) - 1)

\* the filter loop is about to visit view k of cell (i, j)
Visiting == pc = "filter" /\ i < FilterHi(filtering, precision)

\* the rasterizer's output for the input
Rastered == Rasterize(points, colors, precision)

\* the cells of the window of half-width filtering centred at (ci, cj)
Window(ci, cj) ==
  { <<r, c>> \in Cells \X Cells :
      /\ ci - filtering <= r /\ r <= ci + filtering
      /\ cj - filtering <= c /\ c <= cj + filtering }

RECURSIVE SumOver(_, _)
\* the sum of m[r][c] over the cells of S
SumOver(S, m) ==
  IF S = {} THEN 0
  ELSE LET x == CHOOSE y \in S : TRUE
       IN m[x[1]][x[2]] + SumOver(S \ {x}, m)

\* the occupied cells of view v in the window centred at (ci, cj)
OccupiedIn(v, ci, cj) == { x \in Window(ci, cj) : ocp_map[v][x[1]][x[2]] = 1 }

\* C5: for filtering > 0, no step of the filter changes the image pixel or
\* the occupancy flag of a border cell of any view, and in the returned
\* buffers they are those the rasterizer produced.
C5_FilterLocality ==
  /\ [][ pc = "filter" =>
          \A v \in Views : \A r \in Cells : \A c \in Cells :
            IsBorder(r, c, filtering) =>
              /\ img'[v][r][c] = img[v][r][c]
              /\ ocp_map'[v][r][c] = ocp_map[v][r][c] ]_vars
  /\ []((pc = "done" /\ filtering > 0) =>
         LET R == Rastered
         IN \A v \in Views : \A r \in Cells : \A c \in Cells :
              IsBorder(r, c, filtering) =>
                /\ img[v][r][c] = R.img[v][r][c]
                /\ ocp_map[v][r][c] = R.ocp_map[v][r][c])

\* the filter removed an interior pixel of a row that holds a colored border
\* pixel of the same view
C5_Witness ==
  /\ pc = "done" /\ filtering > 0
  /\ \E v \in Views : \E r \in Interior : \E c \in Interior : \E b \in Cells :
       /\ ocp_map[v][r][c] = 0
       /\ freqs[v] > 0
       /\ max_depth[v \div 2][r][c] < Bound
       /\ IsBorder(r, b, filtering)
       /\ ocp_map[v][r][b] = 1
       /\ img[v][r][b] # Background

\* cell x is in the window of cell y
InWindowOf(x, y) ==
  /\ y[1] - filtering <= x[1] /\ x[1] <= y[1] + filtering
  /\ y[2] - filtering <= x[2] /\ x[2] <= y[2] + filtering

\* cell x comes before cell y in the order of the loops at lines 73-74
RowMajorBefore(x, y) == x[1] < y[1] \/ (x[1] = y[1] /\ x[2] < y[2])

\* the interior cells of view v that the rasterizer occupied and the filter cleared
RemovedFrom(R, v) ==
  { x \in Interior \X Interior :
      ocp_map[v][x[1]][x[2]] = 0 /\ R.ocp_map[v][x[1]][x[2]] = 1 }

\* the interior cells of view v that are occupied
OccupiedInterior(v) == { y \in Interior \X Interior : ocp_map[v][y[1]][y[2]] = 1 }

\* a second pass over the returned buffers, the depth buffers as they are
SecondPass == FilterPass(Buffers, filtering, precision)

\* C6 as stated: a second filter pass over the result of the first removes
\* no further pixel, for every rasterized input.
C6_Idempotent ==
  (pc = "done" /\ filtering > 0) =>
    LET F == SecondPass
    IN F.img = img /\ F.ocp_map = ocp_map

\* C6 as amended: a second pass changes nothing in a view in which every pixel
\* that the first pass removed from the window of a cell still occupied was
\* visited before that cell (row-major); the depth buffers are the
\* rasterizer's throughout.
C6_SecondPassAmended ==
  (pc = "done" /\ filtering > 0) =>
    LET R == Rastered
        F == SecondPass
    IN \A v \in Views :
         (\A x \in RemovedFrom(R, v) : \A y \in OccupiedInterior(v) :
            InWindowOf(x, y) => RowMajorBefore(x, y))
         => /\ F.img[v] = img[v]
            /\ F.ocp_map[v] = ocp_map[v]

\* a view where the first pass removed a pixel from the window of a cell that
\* was visited later and is still occupied
C6_Witness ==
  /\ pc = "done" /\ filtering > 0
  /\ LET R == Rastered
     IN \E v \in Views :
          /\ \A x \in RemovedFrom(R, v) : \A y \in OccupiedInterior(v) :
               InWindowOf(x, y) => RowMajorBefore(x, y)
          /\ \E x \in RemovedFrom(R, v) : \E y \in OccupiedInterior(v) : InWindowOf(x, y)

\* the orders in which the interior cells can be visited
CellOrders ==
  LET rm == RowMajor(filtering, precision)
  IN { [t \in 1..Len(rm) |-> rm[f[t]]] : f \in Perms(Len(rm)) }

\* C7 as stated: the returned image and occupancy are the same for every
\* order in which the filter visits the interior cells.
C7_AnyOrder ==
  (pc = "done" /\ filtering > 0) =>
    LET R == Rastered
    IN \A order \in CellOrders :
         LET F == FilterOrder(R, filtering, order, 1)
         IN F.img = img /\ F.ocp_map = ocp_map

\* no pixel removed from view v lies in the window of another interior cell
\* that the rasterizer occupied in that view
RemovalsIsolated(R, v) ==
  \A x \in RemovedFrom(R, v) : \A y \in Interior \X Interior :
    (y # x /\ R.ocp_map[v][y[1]][y[2]] = 1) => ~InWindowOf(x, y)

\* C7 as amended: a visit of view k at cell (i, j) writes no depth value and
\* no image or occupancy value other than those of (k, i, j); and a view's
\* returned image and occupancy are the same for every visiting order when no
\* pixel removed from it lies in the window of another interior cell that the
\* rasterizer occupied in that view.
C7_AnyOrderAmended ==
  /\ [](( pc = "done" /\ filtering > 0) =>
        LET R == Rastered
            isolated == { v \in Views : RemovalsIsolated(R, v) }
        IN \A order \in CellOrders :
             LET F == FilterOrder(R, filtering, order, 1)
             IN \A v \in isolated :
                  F.img[v] = img[v] /\ F.ocp_map[v] = ocp_map[v])
  /\ [][ Visiting =>
          /\ min_depth' = min_depth
          /\ max_depth' = max_depth
          /\ \A v \in Views : \A r \in Cells : \A c \in Cells :
               <<v, r, c>> # <<k, i, j>> =>
                 /\ ocp_map'[v][r][c] = ocp_map[v][r][c]
                 /\ img'[v][r][c] = img[v][r][c] ]_vars

\* a view with a single occupied interior cell, which the filter removed
C7_Witness ==
  /\ pc = "done" /\ filtering > 0
  /\ Len(RowMajor(filtering, precision)) > 1
  /\ LET R == Rastered
     IN \E v \in Views : RemovedFrom(R, v) # {} /\ RemovalsIsolated(R, v)

\* C8: a visit whose occupancy window sums to zero changes neither occupancy
\* nor image and counts no removal; equivalently every removal happens with a
\* window occupancy sum >= 1.
C8_ZeroWindow ==
  [][ (Visiting /\ OccupiedIn(k, i, j) = {}) =>
        /\ ocp_map' = ocp_map
        /\ img' = img
        /\ freqs' = freqs ]_vars

\* a visit of an interior cell whose window holds no occupied cell, in a view
\* that is occupied elsewhere
C8_Witness ==
  /\ Visiting
  /\ OccupiedIn(k, i, j) = {}
  /\ \E r \in Cells : \E c \in Cells : ocp_map[k][r][c] = 1

\* the removal rule for view v at cell (ci, cj), from the current buffers
RuleRemoves(v, ci, cj) ==
  /\ ocp_map[v][ci][cj] = 1
  /\ LET occ == OccupiedIn(v, ci, cj)
         n == Cardinality(occ)
     IN IF v % 2 = 0
        THEN max_depth[v \div 2][ci][cj] * n >
               SumOver(occ, max_depth[v \div 2]) + FilterMargin * Scale * n
        ELSE min_depth[v \div 2][ci][cj] * n <
               SumOver(occ, min_depth[v \div 2]) - FilterMargin * Scale * n

\* C10: a visit of view k at (i, j) clears the occupancy and resets the pixel
\* iff the cell is occupied and its near depth exceeds the occupancy-weighted
\* window average by more than 20 (k even), or its far depth is below that
\* average by more than 20 (k odd); nothing else changes; the bias is +1
\* exactly at even k and -1 exactly at odd k.
C10_RemovalRule ==
  [][ Visiting =>
        /\ bias = (IF k % 2 = 0 THEN 1 ELSE -1)
        /\ IF RuleRemoves(k, i, j)
           THEN /\ ocp_map' = [ocp_map EXCEPT ![k][i][j] = 0]
                /\ img' = [img EXCEPT ![k][i][j] = Background]
                /\ freqs' = [freqs EXCEPT ![k] = freqs[k] + 1]
           ELSE /\ ocp_map' = ocp_map
                /\ img' = img
                /\ freqs' = freqs ]_vars

\* visits that remove a pixel of an odd view after one of an even view was
\* kept in a window with other occupied cells
C10_Witness ==
  /\ Visiting
  /\ k % 2 = 1
  /\ RuleRemoves(k, i, j)
  /\ ocp_map[k - 1][i][j] = 1
  /\ Cardinality(OccupiedIn(k, i, j)) > 1

====
